---- MODULE Spec2Model ----
(***************************************************************************)
(* Book Store API (FastAPI + SQLAlchemy async session over SQLite).         *)
(*                                                                         *)
(* The books table and the users table are the only shared state.  Each    *)
(* request runs in its own session; every `await session.execute/commit/   *)
(* refresh` of a handler is one step, so steps of different requests may    *)
(* interleave (ConcSpec) or requests may be served one at a time (Spec).    *)
(*                                                                         *)
(* Optional values: None is <<>>, a present value v is <<v>>.               *)
(***************************************************************************)
EXTENDS Integers, Sequences, FiniteSets, TLC

VARIABLES
    books,      \* the books table: a set of rows (db.BookModel), unique by id
    users,      \* the users table: a set of rows (db.UserModel)
    pc,         \* per request slot: the await point the handler is suspended at
    req,        \* per request slot: the request being served (route and arguments)
    loaded,     \* per request slot: the ORM object the session holds (existing_book / db_book)
    resp,       \* per request slot: the response sent for the request
    started,    \* number of requests received so far
    serial,     \* per request slot: the arrival number of its request
    now,        \* the clock (minutes), read by datetime.utcnow()
    stored0     \* history: the books table before the first request (no handler reads it)

vars == <<books, users, pc, req, loaded, resp, started, serial, now, stored0>>

----------------------------------------------------------------------------
(* Bounds of the model *)

MaxRequests == 4
MaxConcRequests == 2
MaxTime == 2
MaxAuthRequests == 2

Procs == {"r1", "r2"}

----------------------------------------------------------------------------
(* Optional values *)

None == <<>>
Some(v) == <<v>>

----------------------------------------------------------------------------
(* schema.py: Book and BookUpdate *)

BookFields == {"id", "title", "author", "price", "description", "isbn", "publication_year"}
PatchFields == BookFields \ {"id"}

\* Field constraints of schema.Book (pydantic): violated => 422 before the handler runs
BookValid(b) ==
    /\ b.title # None /\ b.title # Some("")
    /\ b.author # None /\ b.author # Some("")
    /\ b.price # None /\ b.price[1] > 0
    /\ (b.publication_year # None =>
            b.publication_year[1] >= 1000 /\ b.publication_year[1] <= 9999)

\* Field constraints of schema.BookUpdate: every field Optional, None always accepted
BookUpdateValid(u) ==
    /\ ("title" \in DOMAIN u => u.title = None \/ u.title # Some(""))
    /\ ("author" \in DOMAIN u => u.author = None \/ u.author # Some(""))
    /\ ("price" \in DOMAIN u => u.price = None \/ u.price[1] > 0)
    /\ ("publication_year" \in DOMAIN u =>
            \/ u.publication_year = None
            \/ u.publication_year[1] >= 1000 /\ u.publication_year[1] <= 9999)

\* model_dump that loses the isbn on the way to the table
model_dump_without_isbn(b) ==
    [id |-> b.id, title |-> b.title, author |-> b.author, price |-> b.price,
     description |-> b.description, isbn |-> None,
     publication_year |-> b.publication_year]

\* book.model_dump(): the dict BookModel(**...) is built from
model_dump(b) ==
    [id |-> b.id, title |-> b.title, author |-> b.author, price |-> b.price,
     description |-> b.description, isbn |-> b.isbn,
     publication_year |-> b.publication_year]

\* book_update.model_dump(exclude_none=True): drops the fields supplied as null
model_dump_exclude_none(u) == [f \in {g \in DOMAIN u : u[g] # None} |-> u[f]]

\* book_update.model_dump(exclude_unset=True): only the fields the body supplied
model_dump_exclude_unset(u) == [f \in DOMAIN u |-> u[f]]

\* Book.model_validate(orm_object): reads the columns by attribute (from_attributes)
from_attributes(row) ==
    [id |-> row.id, title |-> row.title, author |-> row.author, price |-> row.price,
     description |-> row.description, isbn |-> row.isbn,
     publication_year |-> row.publication_year]

----------------------------------------------------------------------------
(* Inputs the requests are drawn from *)

BookIds == {1, 2}

MkBook(i, t, p, isbn) ==
    [id |-> i, title |-> Some(t), author |-> Some("a1"), price |-> Some(p),
     description |-> Some("d1"), isbn |-> isbn, publication_year |-> Some(1999)]

\* request bodies of POST /books: valid books, and one the schema rejects (price 0)
BookInputs ==
    {MkBook(i, "t1", 10, isbn) : i \in BookIds, isbn \in {None, Some("i1")}}
        \cup {MkBook(1, "t2", 10, None), MkBook(1, "t1", 0, None)}

PatchValues ==
    [title |-> Some("t2"), author |-> Some("a2"), price |-> Some(20),
     description |-> None, isbn |-> Some("i1"), publication_year |-> Some(2001)]

NullPatchValues ==
    [title |-> None, author |-> None, price |-> None,
     description |-> None, isbn |-> None, publication_year |-> None]

BadPatchValues ==
    [title |-> Some(""), author |-> Some(""), price |-> Some(0),
     description |-> None, isbn |-> None, publication_year |-> Some(999)]

PatchOf(S, v) == [f \in S |-> v[f]]

\* request bodies of PUT /books/{id}: the fields supplied, possibly none
PatchInputs ==
    {PatchOf(S, PatchValues) :
        S \in {{}, {"price"}, {"title", "description"}, {"description"}, {"isbn"},
               {"author", "publication_year"}, {"price", "isbn"}}}
    \cup {PatchOf({"title"}, NullPatchValues), PatchOf({"isbn"}, NullPatchValues),
          PatchOf({"price"}, BadPatchValues)}

Pages == {0, 1, 2}
PageSizes == {-1, 1}

----------------------------------------------------------------------------
(* Responses *)

NoResp == [status |-> 0, error |-> "", body |-> None]
Ok(code, body) == [status |-> code, error |-> "", body |-> body]
\* raise HTTPException(status_code, detail={"error": ..., "message": ..., "suggestion": ...})
HttpError(code, kind) == [status |-> code, error |-> kind, body |-> None]
\* an exception no handler catches: the framework answers 500 Internal Server Error
ServerFault(exc) == [status |-> 500, error |-> exc, body |-> None]
\* the request body fails schema validation: the framework answers 422
Unprocessable == [status |-> 422, error |-> "RequestValidationError", body |-> None]

NoReq == [route |-> "none"]
NoObj == None

----------------------------------------------------------------------------
(* db.py: the books table as SQLite keeps it *)

\* select(BookModel).where(BookModel.id == book_id); .scalars().first()
SelectById(tbl, id) == {r \in tbl : r.id = id}

TheRow(rows) == CHOOSE r \in rows : TRUE

\* Column(..., nullable=False) on title, author, price
NotNullViolated(row) == row.title = None \/ row.author = None \/ row.price = None

\* isbn = Column(String(50), nullable=True, unique=True): NULLs never collide
IsbnTaken(tbl, id, isbn) == isbn # None /\ \E r \in tbl : r.id # id /\ r.isbn = isbn

\* id = Column(Integer, primary_key=True)
PrimaryKeyTaken(tbl, id) == \E r \in tbl : r.id = id

\* INSERT INTO books: the constraints that make the flush raise IntegrityError
InsertViolates(tbl, row) ==
    PrimaryKeyTaken(tbl, row.id) \/ NotNullViolated(row) \/ IsbnTaken(tbl, row.id, row.isbn)

\* setattr(existing_book, field, value) for the fields of update_data
Merged(row, data) ==
    [id |-> row.id,
     title |-> IF "title" \in DOMAIN data THEN data.title ELSE row.title,
     author |-> IF "author" \in DOMAIN data THEN data.author ELSE row.author,
     price |-> IF "price" \in DOMAIN data THEN data.price ELSE row.price,
     description |-> IF "description" \in DOMAIN data THEN data.description ELSE row.description,
     isbn |-> IF "isbn" \in DOMAIN data THEN data.isbn ELSE row.isbn,
     publication_year |-> IF "publication_year" \in DOMAIN data
                            THEN data.publication_year ELSE row.publication_year]

\* the unit of work flushes only the attributes whose value differs from the loaded one
ChangedFields(row, data) == {f \in DOMAIN data : data[f] # row[f]}

\* an UPDATE that writes every column of the session's object over the stored row
UpdateWholeObject(cur, obj, changed) == obj

\* UPDATE books SET <changed columns> WHERE id = ?, applied to the row as stored now
UpdateSet(cur, obj, changed) ==
    [id |-> cur.id,
     title |-> IF "title" \in changed THEN obj.title ELSE cur.title,
     author |-> IF "author" \in changed THEN obj.author ELSE cur.author,
     price |-> IF "price" \in changed THEN obj.price ELSE cur.price,
     description |-> IF "description" \in changed THEN obj.description ELSE cur.description,
     isbn |-> IF "isbn" \in changed THEN obj.isbn ELSE cur.isbn,
     publication_year |-> IF "publication_year" \in changed
                            THEN obj.publication_year ELSE cur.publication_year]

\* SELECT without ORDER BY: SQLite scans the table b-tree, which the INTEGER PRIMARY KEY orders
RECURSIVE TableScan(_)
TableScan(tbl) ==
    IF tbl = {} THEN <<>>
    ELSE LET r == CHOOSE x \in tbl : \A o \in tbl : x.id <= o.id
         IN  <<r>> \o TableScan(tbl \ {r})

\* LIMIT ? OFFSET ?: SQLite reads a negative OFFSET as 0 and a negative LIMIT as no limit
LimitOffset(rows, limit, offset) ==
    LET off == IF offset < 0 THEN 0 ELSE offset
        rest == SubSeq(rows, off + 1, Len(rows))
    IN  IF limit < 0 \/ limit >= Len(rest) THEN rest ELSE SubSeq(rest, 1, limit)

\* Book.model_validate(row) as the response: a row the schema rejects raises ValidationError
BookResponse(code, row) ==
    IF BookValid(from_attributes(row)) THEN Ok(code, from_attributes(row))
    ELSE ServerFault("ValidationError")

----------------------------------------------------------------------------
(* Request lifecycle *)

\* a request arrives on a free slot
Begin(p, r, max) ==
    /\ pc[p] = "idle"
    /\ started < max
    /\ started' = started + 1
    /\ serial' = [serial EXCEPT ![p] = started + 1]
    /\ req' = [req EXCEPT ![p] = r]

\* the handler returns or raises: the response is sent and the session is closed
Finish(p, r) ==
    /\ pc' = [pc EXCEPT ![p] = "idle"]
    /\ resp' = [resp EXCEPT ![p] = r]
    /\ loaded' = [loaded EXCEPT ![p] = NoObj]

\* the handler suspends at its next await, holding ORM object obj
Suspend(p, at, obj) ==
    /\ pc' = [pc EXCEPT ![p] = at]
    /\ resp' = [resp EXCEPT ![p] = NoResp]
    /\ loaded' = [loaded EXCEPT ![p] = obj]

----------------------------------------------------------------------------
(* app.py: the book routes *)

\* GET /books: one SELECT with OFFSET and LIMIT
get_all_books(p, max) ==
    \E page \in Pages, page_size \in PageSizes :
        /\ Begin(p, [route |-> "get_all_books", page |-> page, page_size |-> page_size], max)
        /\ LET offset == (page - 1) * page_size
               rows == LimitOffset(TableScan(books), page_size, offset)
           IN  Finish(p, Ok(200, [i \in 1..Len(rows) |-> from_attributes(rows[i])]))
        /\ UNCHANGED <<books, users, now, stored0>>

\* GET /books/{book_id}.  (On a miss the handlers run a second, read-only SELECT of the
\* stored ids to word the suggestion of the 404 payload; the response kind does not
\* depend on it.)
get_book(p, max) ==
    \E book_id \in BookIds :
        /\ Begin(p, [route |-> "get_book", book_id |-> book_id], max)
        /\ LET rows == SelectById(books, book_id)
           IN  IF rows = {} THEN Finish(p, HttpError(404, "BookNotFound"))
               ELSE Finish(p, BookResponse(200, TheRow(rows)))
        /\ UNCHANGED <<books, users, now, stored0>>

\* create_book without the existence check
create_book_unchecked(p, max) ==
    \E book \in BookInputs :
        /\ Begin(p, [route |-> "create_book", book |-> book], max)
        /\ IF ~BookValid(book) THEN Finish(p, Unprocessable)
           ELSE Suspend(p, "create_commit", model_dump(book))
        /\ UNCHANGED <<books, users, now, stored0>>

\* POST /books, up to the existence check (app.py 117-137)
create_book(p, max) ==
    \E book \in BookInputs :
        /\ Begin(p, [route |-> "create_book", book |-> book], max)
        /\ IF ~BookValid(book) THEN Finish(p, Unprocessable)
           ELSE IF SelectById(books, book.id) # {}
                THEN Finish(p, HttpError(400, "BookAlreadyExists"))
           ELSE Suspend(p, "create_commit", model_dump(book))
        /\ UNCHANGED <<books, users, now, stored0>>

\* session.add(db_book); await session.commit(): the INSERT
create_commit(p) ==
    /\ pc[p] = "create_commit"
    /\ IF InsertViolates(books, loaded[p])
       THEN Finish(p, ServerFault("IntegrityError")) /\ UNCHANGED books
       ELSE books' = books \cup {loaded[p]} /\ Suspend(p, "create_refresh", loaded[p])
    /\ UNCHANGED <<users, req, started, serial, now, stored0>>

\* await session.refresh(db_book); return Book.model_validate(db_book)
create_refresh(p) ==
    /\ pc[p] = "create_refresh"
    /\ LET rows == SelectById(books, loaded[p].id)
       IN  IF rows = {} THEN Finish(p, ServerFault("InvalidRequestError"))
           ELSE Finish(p, BookResponse(201, TheRow(rows)))
    /\ UNCHANGED <<books, users, req, started, serial, now, stored0>>

\* update_book whose setattr loop writes to the stored row itself and yields after the
\* first field
update_book_shared_object(p, max) ==
    \E book_id \in BookIds, book_update \in PatchInputs :
        /\ Begin(p, [route |-> "update_book", book_id |-> book_id,
                     book_update |-> book_update], max)
        /\ LET rows == SelectById(books, book_id)
               update_data == model_dump_exclude_unset(book_update)
           IN  IF ~BookUpdateValid(book_update)
               THEN Finish(p, Unprocessable) /\ UNCHANGED books
               ELSE IF rows = {}
               THEN Finish(p, HttpError(404, "BookNotFound")) /\ UNCHANGED books
               ELSE IF DOMAIN update_data = {}
               THEN Finish(p, HttpError(400, "NoUpdateData")) /\ UNCHANGED books
               ELSE LET row == TheRow(rows)
                        f == CHOOSE g \in DOMAIN update_data : TRUE
                    IN  /\ books' = (books \ rows) \cup {[row EXCEPT ![f] = update_data[f]]}
                        /\ Suspend(p, "update_commit", row)
        /\ UNCHANGED <<users, now, stored0>>

\* update_book testing for an empty patch before it looks the record up
update_book_empty_first(p, max) ==
    \E book_id \in BookIds, book_update \in PatchInputs :
        /\ Begin(p, [route |-> "update_book", book_id |-> book_id,
                     book_update |-> book_update], max)
        /\ LET rows == SelectById(books, book_id)
               update_data == model_dump_exclude_unset(book_update)
           IN  IF ~BookUpdateValid(book_update) THEN Finish(p, Unprocessable)
               ELSE IF DOMAIN update_data = {} THEN Finish(p, HttpError(400, "NoUpdateData"))
               ELSE IF rows = {} THEN Finish(p, HttpError(404, "BookNotFound"))
               ELSE Suspend(p, "update_commit", TheRow(rows))
        /\ UNCHANGED <<books, users, now, stored0>>

\* PUT /books/{book_id}, up to the setattr loop (app.py 189-228)
update_book(p, max) ==
    \E book_id \in BookIds, book_update \in PatchInputs :
        /\ Begin(p, [route |-> "update_book", book_id |-> book_id,
                     book_update |-> book_update], max)
        /\ LET rows == SelectById(books, book_id)
               update_data == model_dump_exclude_unset(book_update)
           IN  IF ~BookUpdateValid(book_update) THEN Finish(p, Unprocessable)
               ELSE IF rows = {} THEN Finish(p, HttpError(404, "BookNotFound"))
               ELSE IF DOMAIN update_data = {} THEN Finish(p, HttpError(400, "NoUpdateData"))
               ELSE Suspend(p, "update_commit", TheRow(rows))
        /\ UNCHANGED <<books, users, now, stored0>>

\* await session.commit(): the UPDATE of the changed columns
update_commit(p) ==
    /\ pc[p] = "update_commit"
    /\ LET update_data == model_dump_exclude_unset(req[p].book_update)
           obj == Merged(loaded[p], update_data)
           changed == ChangedFields(loaded[p], update_data)
           rows == SelectById(books, loaded[p].id)
       IN  IF changed = {}
           THEN UNCHANGED books /\ Suspend(p, "update_refresh", obj)
           ELSE IF rows = {}
           THEN UNCHANGED books /\ Finish(p, ServerFault("StaleDataError"))
           ELSE LET new == UpdateSet(TheRow(rows), obj, changed)
                IN  IF NotNullViolated(new) \/ IsbnTaken(books, new.id, new.isbn)
                    THEN UNCHANGED books /\ Finish(p, ServerFault("IntegrityError"))
                    ELSE /\ books' = (books \ rows) \cup {new}
                         /\ Suspend(p, "update_refresh", obj)
    /\ UNCHANGED <<users, req, started, serial, now, stored0>>

\* await session.refresh(existing_book); return Book.model_validate(existing_book)
update_refresh(p) ==
    /\ pc[p] = "update_refresh"
    /\ LET rows == SelectById(books, loaded[p].id)
       IN  IF rows = {} THEN Finish(p, ServerFault("InvalidRequestError"))
           ELSE Finish(p, BookResponse(200, TheRow(rows)))
    /\ UNCHANGED <<books, users, req, started, serial, now, stored0>>

\* DELETE /books/{book_id}, up to the existence check (app.py 258-279)
delete_book(p, max) ==
    \E book_id \in BookIds :
        /\ Begin(p, [route |-> "delete_book", book_id |-> book_id], max)
        /\ LET rows == SelectById(books, book_id)
           IN  IF rows = {} THEN Finish(p, HttpError(404, "BookNotFound"))
               ELSE Suspend(p, "delete_commit", TheRow(rows))
        /\ UNCHANGED <<books, users, now, stored0>>

\* delete_book answering without having committed the DELETE
delete_commit_skipped(p) ==
    /\ pc[p] = "delete_commit"
    /\ Finish(p, BookResponse(200, loaded[p]))
    /\ UNCHANGED <<books, users, req, started, serial, now, stored0>>

\* await session.delete(existing_book); await session.commit(); the response is built
\* from the object the session loaded (expire_on_commit=False)
delete_commit(p) ==
    /\ pc[p] = "delete_commit"
    /\ books' = books \ SelectById(books, loaded[p].id)
    /\ Finish(p, BookResponse(200, loaded[p]))
    /\ UNCHANGED <<users, req, started, serial, now, stored0>>

----------------------------------------------------------------------------
(* Specifications *)

\* init_db() on an empty database file; no request received yet
Init ==
    /\ books = {}
    /\ users = {}
    /\ pc = [p \in Procs |-> "idle"]
    /\ req = [p \in Procs |-> NoReq]
    /\ loaded = [p \in Procs |-> NoObj]
    /\ resp = [p \in Procs |-> NoResp]
    /\ started = 0
    /\ serial = [p \in Procs |-> 0]
    /\ now = 0
    /\ stored0 = books

\* requests served one at a time: a request is received when no handler is in flight
\* (the slots are used in turn, so the previous exchange stays visible)
SeqTurn(p) ==
    /\ \A q \in Procs : pc[q] = "idle"
    /\ p = IF started % 2 = 0 THEN "r1" ELSE "r2"

Next ==
    \E p \in Procs :
        \/ SeqTurn(p) /\ get_all_books(p, MaxRequests)
        \/ SeqTurn(p) /\ get_book(p, MaxRequests)
        \/ SeqTurn(p) /\ create_book(p, MaxRequests)
        \/ create_commit(p)
        \/ create_refresh(p)
        \/ SeqTurn(p) /\ update_book(p, MaxRequests)
        \/ update_commit(p)
        \/ update_refresh(p)
        \/ SeqTurn(p) /\ delete_book(p, MaxRequests)
        \/ delete_commit(p)

Spec == Init /\ [][Next]_vars

\* the database file outlives the process: rows created by earlier requests may be stored
StoredAtStart ==
    {{}, {MkBook(1, "t1", 10, Some("i1"))},
     {MkBook(1, "t1", 10, Some("i1")), MkBook(2, "t2", 10, None)}}

ConcInit ==
    /\ books \in StoredAtStart
    /\ users = {}
    /\ pc = [p \in Procs |-> "idle"]
    /\ req = [p \in Procs |-> NoReq]
    /\ loaded = [p \in Procs |-> NoObj]
    /\ resp = [p \in Procs |-> NoResp]
    /\ started = 0
    /\ serial = [p \in Procs |-> 0]
    /\ now = 0
    /\ stored0 = books

\* requests served concurrently: the steps of two handlers interleave at their awaits
ConcNext ==
    \E p \in Procs :
        \/ get_all_books(p, MaxConcRequests)
        \/ get_book(p, MaxConcRequests)
        \/ create_book(p, MaxConcRequests)
        \/ create_commit(p)
        \/ create_refresh(p)
        \/ update_book(p, MaxConcRequests)
        \/ update_commit(p)
        \/ update_refresh(p)
        \/ delete_book(p, MaxConcRequests)
        \/ delete_commit(p)

ConcSpec == ConcInit /\ [][ConcNext]_vars

----------------------------------------------------------------------------
(* users.py: configuration *)

\* SECRET_KEY = os.getenv(""): no environment variable has the empty name
SECRET_KEY == None
ALGORITHM == "HS256"
ACCESS_TOKEN_EXPIRE_MINUTES == 30

\* the default of a `session = Depends(get_session)` parameter, which a direct call
\* (not one made by the framework's dependency injection) leaves in place
DependsDefault == "Depends(get_session)"
InjectedSession == "AsyncSession"

----------------------------------------------------------------------------
(* Inputs of the account routes *)

MkUser(i, email, password, active) ==
    [id |-> i, email |-> email, hashed_password |-> <<"bcrypt", password>>,
     first_name |-> "F", last_name |-> "L", date_of_birth |-> "1990-05-15",
     is_active |-> active, is_superuser |-> FALSE, created_at |-> 0]

\* the users table the database file holds when the process starts
PersistedUsers ==
    {{}, {MkUser(1, "a@x.com", "password1", TRUE)},
     {MkUser(1, "a@x.com", "password1", TRUE), MkUser(2, "b@x.com", "password1", FALSE)}}

\* request bodies of POST /register (the last has a password the schema rejects)
UserCreateInputs ==
    {[email |-> e, password |-> pw, first_name |-> "F", last_name |-> "L",
      date_of_birth |-> "1990-05-15"] :
        e \in {"a@x.com", "c@x.com"}, pw \in {"password1", "short"}}

\* request bodies of POST /login
UserLoginInputs ==
    {[email |-> e, password |-> pw] :
        e \in {"a@x.com", "b@x.com", "c@x.com"}, pw \in {"password1", "password2"}}

NoToken == [wellformed |-> FALSE, alg |-> "", key |-> None, sub |-> None,
            user_id |-> None, exp |-> 0, present |-> FALSE]
Garbage == [wellformed |-> FALSE, alg |-> "", key |-> None, sub |-> None,
            user_id |-> None, exp |-> 0, present |-> TRUE]
\* a JWS: header alg, the key its signature was made with, and the claims
Jwt(alg, key, sub, uid, exp) ==
    [wellformed |-> TRUE, alg |-> alg, key |-> key, sub |-> sub,
     user_id |-> uid, exp |-> exp, present |-> TRUE]

\* Authorization headers of GET /me: none, not a JWS, and JWSs signed with a key of the
\* sender's choosing (the service has no key of its own to sign with)
TokenInputs ==
    {NoToken, Garbage}
    \cup {Jwt("HS256", Some("k1"), sub, Some(1), exp) :
            sub \in {Some("a@x.com"), Some("b@x.com"), Some("c@x.com"), None},
            exp \in {1, 31}}
    \cup {Jwt("none", None, Some("a@x.com"), Some(1), 31)}

----------------------------------------------------------------------------
(* users.py: passwords and tokens *)

\* pwd_context.hash(password)
get_password_hash(password) == <<"bcrypt", password>>

\* pwd_context.verify(plain_password, hashed_password)
verify_password(plain_password, hashed_password) == hashed_password = <<"bcrypt", plain_password>>

\* jose builds an HMAC key only from a str or bytes
UsableKey(key) == key # None

\* jwt.encode(to_encode, SECRET_KEY, algorithm=ALGORITHM): raises JWSError without a usable key
jwt_encode(claims, key, algorithm) ==
    IF ~UsableKey(key) THEN [exc |-> "JWSError", token |-> NoToken]
    ELSE [exc |-> "", token |-> Jwt(algorithm, key, claims.sub, claims.user_id, claims.exp)]

\* create_access_token(data, expires_delta) at time t
create_access_token(data, expires_delta, t) ==
    LET expire == IF expires_delta # None THEN t + expires_delta[1]
                  ELSE t + ACCESS_TOKEN_EXPIRE_MINUTES
    IN  jwt_encode([sub |-> data.sub, user_id |-> data.user_id, exp |-> expire],
                   SECRET_KEY, ALGORITHM)

\* jwt.decode(token, SECRET_KEY, algorithms=[ALGORITHM]) at time t: a JWTError for a token
\* that is not a JWS, names another algorithm, fails the signature check or has expired;
\* the JWKError raised while building the key is not a JWTError
jwt_decode(token, key, algorithms, t) ==
    IF ~token.wellformed THEN [exc |-> "JWTError", payload |-> NoToken]
    ELSE IF token.alg \notin algorithms THEN [exc |-> "JWTError", payload |-> NoToken]
    ELSE IF ~UsableKey(key) THEN [exc |-> "JWKError", payload |-> NoToken]
    ELSE IF token.key # key THEN [exc |-> "JWTError", payload |-> NoToken]
    ELSE IF token.exp < t THEN [exc |-> "JWTError", payload |-> NoToken]
    ELSE [exc |-> "", payload |-> token]

\* get_user_by_email(session, email): the rows with that email (email is unique)
get_user_by_email(tbl, email) == {u \in tbl : u.email = email}

\* UserResponse.model_validate(user): the account without its password hash
UserResponse(u) ==
    [id |-> u.id, email |-> u.email, first_name |-> u.first_name,
     last_name |-> u.last_name, date_of_birth |-> u.date_of_birth,
     is_active |-> u.is_active, is_superuser |-> u.is_superuser,
     created_at |-> u.created_at]

\* schema.UserCreate: password of at least 8 characters, names of at least 1
UserCreateValid(u) ==
    Len(u.password) >= 8 /\ Len(u.first_name) >= 1 /\ Len(u.last_name) >= 1

\* the id SQLite assigns to a new row: one more than the largest in the table
NextUserId(tbl) ==
    IF tbl = {} THEN 1
    ELSE (CHOOSE i \in {u.id : u \in tbl} : \A u \in tbl : u.id <= i) + 1

\* register_user(user_data, session) at time t: the response and the users table after it.
\* Without an injected session the first session.execute raises AttributeError.
register_user(user_data, session, tbl, t) ==
    IF session # InjectedSession
    THEN [resp |-> ServerFault("AttributeError"), users |-> tbl]
    ELSE IF get_user_by_email(tbl, user_data.email) # {}
    THEN [resp |-> HttpError(400, "UserAlreadyExists"), users |-> tbl]
    ELSE LET new_user ==
                [id |-> NextUserId(tbl), email |-> user_data.email,
                 hashed_password |-> get_password_hash(user_data.password),
                 first_name |-> user_data.first_name, last_name |-> user_data.last_name,
                 date_of_birth |-> user_data.date_of_birth,
                 is_active |-> TRUE, is_superuser |-> FALSE, created_at |-> t]
         IN  [resp |-> Ok(201, UserResponse(new_user)), users |-> tbl \cup {new_user}]

\* authenticate_user(session, email, password): the matching account, if the password verifies
authenticate_user(tbl, email, password) ==
    {u \in get_user_by_email(tbl, email) : verify_password(password, u.hashed_password)}

\* login_user(user_credentials, session) at time t
login_user(user_credentials, session, tbl, t) ==
    IF session # InjectedSession THEN ServerFault("AttributeError")
    ELSE LET found == authenticate_user(tbl, user_credentials.email, user_credentials.password)
         IN  IF found = {} THEN HttpError(401, "InvalidCredentials")
             ELSE LET user == CHOOSE u \in found : TRUE
                      made == create_access_token(
                                  [sub |-> Some(user.email), user_id |-> Some(user.id)],
                                  Some(ACCESS_TOKEN_EXPIRE_MINUTES), t)
                  IN  IF ~user.is_active THEN HttpError(403, "InactiveUser")
                      ELSE IF made.exc # "" THEN ServerFault(made.exc)
                      ELSE Ok(200, [access_token |-> made.token, token_type |-> "bearer"])

\* get_current_user(token, session), then get_current_active_user, then the /me handler
get_current_active_user(token, tbl, t) ==
    IF ~token.present THEN HttpError(401, "Not authenticated")
    ELSE LET decoded == jwt_decode(token, SECRET_KEY, {ALGORITHM}, t)
         IN  IF decoded.exc = "JWTError" THEN HttpError(401, "Could not validate credentials")
             ELSE IF decoded.exc # "" THEN ServerFault(decoded.exc)
             ELSE IF decoded.payload.sub = None
                  THEN HttpError(401, "Could not validate credentials")
             ELSE LET found == get_user_by_email(tbl, decoded.payload.sub[1])
                  IN  IF found = {} THEN HttpError(401, "Could not validate credentials")
                      ELSE LET user == CHOOSE u \in found : TRUE
                           IN  IF ~user.is_active THEN HttpError(400, "Inactive user")
                               ELSE Ok(200, UserResponse(user))

----------------------------------------------------------------------------
(* app.py: the account routes *)

\* POST /register: return await register_user(user_data), no session passed
register(p, max) ==
    \E user_data \in UserCreateInputs :
        /\ Begin(p, [route |-> "register", user_data |-> user_data], max)
        /\ IF ~UserCreateValid(user_data)
           THEN Finish(p, Unprocessable) /\ UNCHANGED users
           ELSE LET done == register_user(user_data, DependsDefault, users, now)
                IN  Finish(p, done.resp) /\ users' = done.users
        /\ UNCHANGED <<books, now, stored0>>

\* POST /login: return await login_user(user_credentials), no session passed
login(p, max) ==
    \E user_credentials \in UserLoginInputs :
        /\ Begin(p, [route |-> "login", user_credentials |-> user_credentials], max)
        /\ Finish(p, login_user(user_credentials, DependsDefault, users, now))
        /\ UNCHANGED <<books, users, now, stored0>>

\* GET /me: current_user = Depends(get_current_active_user), resolved by the framework
get_current_user_info(p, max) ==
    \E token \in TokenInputs :
        /\ Begin(p, [route |-> "get_current_user_info", token |-> token], max)
        /\ Finish(p, get_current_active_user(token, users, now))
        /\ UNCHANGED <<books, users, now, stored0>>

\* time passes
Tick ==
    /\ now < MaxTime
    /\ now' = now + 1
    /\ UNCHANGED <<books, users, pc, req, loaded, resp, started, serial, stored0>>

AuthInit ==
    /\ books = {}
    /\ users \in PersistedUsers
    /\ pc = [p \in Procs |-> "idle"]
    /\ req = [p \in Procs |-> NoReq]
    /\ loaded = [p \in Procs |-> NoObj]
    /\ resp = [p \in Procs |-> NoResp]
    /\ started = 0
    /\ serial = [p \in Procs |-> 0]
    /\ now = 0
    /\ stored0 = books

AuthNext ==
    \/ \E p \in Procs :
        \/ register(p, MaxAuthRequests)
        \/ login(p, MaxAuthRequests)
        \/ get_current_user_info(p, MaxAuthRequests)
    \/ Tick

AuthSpec == AuthInit /\ [][AuthNext]_vars

----------------------------------------------------------------------------
(* Vocabulary of the properties *)

\* request slot p has been answered
Finished(p) == pc[p] = "idle" /\ resp[p].status # 0

\* this step is the arrival of a request for `route` on slot p
Arrives(p, route) ==
    /\ pc[p] = "idle"
    /\ started' = started + 1
    /\ serial'[p] = started + 1
    /\ req'[p].route = route

\* this step is slot p's handler resuming from await point `at`
Resumes(p, at) == pc[p] = at /\ pc'[p] # at

\* slot q holds the exchange that immediately preceded the request now arriving
Preceding(q) == Finished(q) /\ serial[q] = started /\ started > 0

----------------------------------------------------------------------------
(* C1 *)

\* C1 as stated: every create of a valid Book whose id was not stored when the handler
\* checked (so it was not answered BookAlreadyExists) succeeds with 201 and returns b.
C1_Original ==
    \A p \in Procs :
        (/\ Finished(p)
         /\ req[p].route = "create_book"
         /\ BookValid(req[p].book)
         /\ resp[p].error # "BookAlreadyExists")
        => resp[p] = Ok(201, req[p].book)

C1_Step ==
    \A p \in Procs :
        \* the existence check lets a valid book with an unused id through
        /\ (Arrives(p, "create_book") /\ BookValid(req'[p].book)
                /\ ~PrimaryKeyTaken(books, req'[p].book.id))
            => pc'[p] = "create_commit"
        \* the insert stores b, field for field, unless its isbn is held by another record
        /\ (Resumes(p, "create_commit")
                /\ ~IsbnTaken(books, req[p].book.id, req[p].book.isbn))
            => (books' = books \cup {req[p].book} /\ pc'[p] = "create_refresh")
        \* and the handler answers 201 with b
        /\ Resumes(p, "create_refresh") => resp'[p] = Ok(201, req[p].book)
        \* a get answers with the record as stored at that moment
        /\ (Arrives(p, "get_book") /\ SelectById(books, req'[p].book_id) # {})
            => \E r \in books : r.id = req'[p].book_id /\ resp'[p] = Ok(200, r)
        \* the very next read after a successful create returns b
        /\ \A q \in Procs :
            (/\ Arrives(p, "get_book")
             /\ Preceding(q)
             /\ req[q].route = "create_book"
             /\ resp[q].status = 201
             /\ req'[p].book_id = req[q].book.id)
            => resp'[p] = Ok(200, req[q].book)

\* a stored record changes only in the commit of a create, update or delete of its id
StoreFrame ==
    \A i \in BookIds :
        SelectById(books', i) # SelectById(books, i)
        => \E q \in Procs :
            /\ pc[q] \in {"create_commit", "update_commit", "delete_commit"}
            /\ loaded[q].id = i

\* C1 (amended): for every valid Book b whose id is not stored and whose isbn is null or
\* held by no stored record, create(b) succeeds with 201 and returns b, b is stored field
\* for field, and a get(b.id) issued after it, with no update or delete of that id in
\* between, returns a record equal to b; the very next read sees the write.
C1_CreateThenGet == [][C1_Step /\ StoreFrame]_vars

\* C1, reached: a create answered 201 and the next request, a get of the same id, answered 200
C1_Witness ==
    \E p, q \in Procs :
        /\ Finished(q) /\ req[q].route = "create_book" /\ resp[q].status = 201
        /\ Finished(p) /\ req[p].route = "get_book" /\ resp[p].status = 200
        /\ req[p].book_id = req[q].book.id
        /\ serial[p] = serial[q] + 1
        /\ req[q].book.isbn # None

----------------------------------------------------------------------------
(* C2 *)

\* C2: create(b) when a record with id b.id is stored is answered 400 BookAlreadyExists in
\* the step that checks, and that step leaves every stored record as it was.
C2_DuplicateCreate ==
    [][\A p \in Procs :
        (/\ Arrives(p, "create_book")
         /\ BookValid(req'[p].book)
         /\ PrimaryKeyTaken(books, req'[p].book.id))
        => (/\ resp'[p] = HttpError(400, "BookAlreadyExists")
            /\ pc'[p] = "idle"
            /\ books' = books)]_vars

\* C2, reached: a create was answered BookAlreadyExists while a different record holds its id
C2_Witness ==
    \E p \in Procs :
        /\ Finished(p) /\ req[p].route = "create_book"
        /\ resp[p] = HttpError(400, "BookAlreadyExists")
        /\ \E r \in books : r.id = req[p].book.id /\ r # req[p].book

----------------------------------------------------------------------------
(* C3 *)

C3_Step ==
    \A p \in Procs :
        \* the commit of an update replaces the record by the merge of the patch over it
        /\ (Resumes(p, "update_commit") /\ pc'[p] = "update_refresh")
            => \E old \in books, new \in books' :
                /\ old.id = req[p].book_id
                /\ new.id = old.id
                /\ \A f \in PatchFields :
                    new[f] = IF f \in DOMAIN req[p].book_update
                             THEN req[p].book_update[f] ELSE old[f]
                /\ books' \ {new} = books \ {old}
        \* and the handler answers 200 with the merged record, which is the stored one
        /\ Resumes(p, "update_refresh")
            => /\ resp'[p].status = 200
               /\ resp'[p].body \in books
               /\ resp'[p].body.id = req[p].book_id
               /\ \A f \in DOMAIN req[p].book_update :
                    resp'[p].body[f] = req[p].book_update[f]

----------------------------------------------------------------------------
(* C4 *)

\* C4: update(id, patch) is answered 404 BookNotFound when no record with that id is
\* stored, and 400 NoUpdateData when the record is stored and the patch supplies no field;
\* in both cases the handler ends there and the store is unchanged.
C4_UpdateRejected ==
    [][\A p \in Procs :
        (Arrives(p, "update_book") /\ BookUpdateValid(req'[p].book_update))
        => /\ SelectById(books, req'[p].book_id) = {}
                => (/\ resp'[p] = HttpError(404, "BookNotFound")
                    /\ pc'[p] = "idle" /\ books' = books)
           /\ (SelectById(books, req'[p].book_id) # {} /\ DOMAIN req'[p].book_update = {})
                => (/\ resp'[p] = HttpError(400, "NoUpdateData")
                    /\ pc'[p] = "idle" /\ books' = books)]_vars

\* C4, reached: an empty patch was answered NoUpdateData for a stored id, and one for an absent id NotFound
C4_Witness ==
    \E p, q \in Procs :
        /\ Finished(p) /\ req[p].route = "update_book"
        /\ DOMAIN req[p].book_update = {}
        /\ resp[p] = HttpError(400, "NoUpdateData")
        /\ Finished(q) /\ req[q].route = "update_book"
        /\ DOMAIN req[q].book_update = {}
        /\ resp[q] = HttpError(404, "BookNotFound")

----------------------------------------------------------------------------
(* C5 *)

C5_Step ==
    \A p \in Procs :
        \* delete of an absent id: 404, nothing changes
        /\ (Arrives(p, "delete_book") /\ SelectById(books, req'[p].book_id) = {})
            => (/\ resp'[p] = HttpError(404, "BookNotFound")
                /\ pc'[p] = "idle" /\ books' = books)
        \* delete of a stored id removes exactly that record and returns it as it was
        /\ (Arrives(p, "delete_book") /\ SelectById(books, req'[p].book_id) # {})
            => pc'[p] = "delete_commit"
        /\ Resumes(p, "delete_commit")
            => \E old \in books :
                /\ old.id = req[p].book_id
                /\ books' = books \ {old}
                /\ resp'[p] = Ok(200, old)
        \* a get of an id that is not stored is answered 404
        /\ (Arrives(p, "get_book") /\ SelectById(books, req'[p].book_id) = {})
            => resp'[p] = HttpError(404, "BookNotFound")
        \* the get that follows a successful delete of the same id is answered 404
        /\ \A q \in Procs :
            (/\ Arrives(p, "get_book")
             /\ Preceding(q)
             /\ req[q].route = "delete_book"
             /\ resp[q].status = 200
             /\ req'[p].book_id = req[q].book_id)
            => resp'[p] = HttpError(404, "BookNotFound")
        \* an id that is not stored becomes stored only by the commit of a create of it
        /\ \A i \in BookIds :
            (SelectById(books, i) = {} /\ SelectById(books', i) # {})
            => \E q \in Procs : pc[q] = "create_commit" /\ req[q].book.id = i

\* C5: delete(id) on a stored id removes exactly that record and returns it as it was
\* immediately before the delete; a get(id) fails with NotFound from then on until a new
\* create of that id; delete(id) on an absent id fails with NotFound and changes nothing.
C5_DeleteRemoves == [][C5_Step]_vars

\* C5, reached: a delete of an updated record was answered 200 with that record, and the next request,
\* a get of the same id, was answered 404
C5_Witness ==
    \E p, q \in Procs :
        /\ Finished(q) /\ req[q].route = "delete_book" /\ resp[q].status = 200
        /\ resp[q].body.price = Some(20)
        /\ Finished(p) /\ req[p].route = "get_book"
        /\ req[p].book_id = req[q].book_id
        /\ serial[p] = serial[q] + 1
        /\ resp[p] = HttpError(404, "BookNotFound")

----------------------------------------------------------------------------
(* C6 *)

Max2(a, b) == IF a > b THEN a ELSE b
Min2(a, b) == IF a < b THEN a ELSE b

\* the page the claim describes: of the records in id order, skip the first
\* (page - 1) * page_size and return at most page_size
PageOf(all, page, page_size) ==
    LET skip == Max2((page - 1) * page_size, 0)
        n == Min2(Max2(page_size, 0), Max2(Len(all) - skip, 0))
    IN  [i \in 1..n |-> all[skip + i]]

\* C6 as stated: for every page and page_size the endpoint accepts, list returns the stored
\* records in id order, skipping the first (page-1)*page_size, at most page_size of them.
C6_Pagination ==
    [][\A p \in Procs :
        Arrives(p, "get_all_books")
        => resp'[p] = Ok(200, PageOf(TableScan(books), req'[p].page, req'[p].page_size))]_vars

\* C6 for the values a page number and size are meant to take (page >= 1, page_size >= 0):
\* there the code returns the id-ordered slice
C6_PaginationFromPageOne ==
    [][\A p \in Procs :
        (Arrives(p, "get_all_books") /\ req'[p].page >= 1 /\ req'[p].page_size >= 0)
        => resp'[p] = Ok(200, PageOf(TableScan(books), req'[p].page, req'[p].page_size))]_vars

\* C6, reached: records 1 and 2 are stored and list(2, 1) returned exactly the second
C6_Witness ==
    \E p \in Procs :
        /\ Finished(p) /\ req[p].route = "get_all_books"
        /\ req[p].page = 2 /\ req[p].page_size = 1
        /\ {r.id : r \in books} = {1, 2}
        /\ Len(resp[p].body) = 1 /\ resp[p].body[1].id = 2

----------------------------------------------------------------------------
(* C7 *)

UniqueEmails(tbl) == \A u, v \in tbl : u.email = v.email => u = v

\* C7 as stated: register with a registered email is answered 400 UserAlreadyExists and
\* stores nothing; otherwise it stores one new Account with is_active = true and
\* is_superuser = false and returns its view without the password hash; no two Accounts
\* ever share an email.
C7_Register ==
    [][/\ UniqueEmails(users')
       /\ \A p \in Procs :
            (Arrives(p, "register") /\ UserCreateValid(req'[p].user_data))
            => IF get_user_by_email(users, req'[p].user_data.email) # {}
               THEN resp'[p] = HttpError(400, "UserAlreadyExists") /\ users' = users
               ELSE /\ resp'[p].status = 201
                    /\ resp'[p].body.email = req'[p].user_data.email
                    /\ "hashed_password" \notin DOMAIN resp'[p].body
                    /\ \E a \in users' :
                        /\ a \notin users
                        /\ users' = users \cup {a}
                        /\ a.email = req'[p].user_data.email
                        /\ a.is_active /\ ~a.is_superuser]_vars

----------------------------------------------------------------------------
(* C8 *)

\* C8 as stated: login is answered 401 InvalidCredentials when no account has the email or
\* the password does not verify, 403 InactiveUser when the credentials are right and the
\* account is inactive, and otherwise 200 with a token whose subject is the account's
\* email, whose user_id is its id and which expires 30 minutes after issuance.
C8_Login ==
    [][\A p \in Procs :
        Arrives(p, "login")
        => LET cred == req'[p].user_credentials
               found == {u \in users : u.email = cred.email
                                       /\ u.hashed_password = <<"bcrypt", cred.password>>}
           IN  IF found = {} THEN resp'[p] = HttpError(401, "InvalidCredentials")
               ELSE \E u \in found :
                    IF ~u.is_active THEN resp'[p] = HttpError(403, "InactiveUser")
                    ELSE /\ resp'[p].status = 200
                         /\ resp'[p].body.access_token.sub = Some(u.email)
                         /\ resp'[p].body.access_token.user_id = Some(u.id)
                         /\ resp'[p].body.access_token.exp = now + 30]_vars

----------------------------------------------------------------------------
(* C9 *)

\* the token's signature verifies under the service's key and its expiry has not passed
TokenGood(token, t) ==
    /\ token.present /\ token.wellformed /\ token.alg = ALGORITHM
    /\ token.key = SECRET_KEY
    /\ token.exp >= t

\* C9 as stated: authenticate returns an Account only for a token whose signature
\* verifies, that has not expired and whose subject is an existing active Account; a
\* missing, malformed, wrongly signed or expired token, or one whose subject matches no
\* account, is answered 401; a token of an inactive account is answered 400.
C9_Authenticate ==
    [][\A p \in Procs :
        Arrives(p, "get_current_user_info")
        => LET token == req'[p].token
               subject == IF token.sub = None THEN {}
                          ELSE {u \in users : u.email = token.sub[1]}
           IN  /\ resp'[p].status = 200
                    => /\ TokenGood(token, now)
                       /\ \E u \in subject : u.is_active /\ resp'[p].body.email = u.email
               /\ (~TokenGood(token, now) \/ subject = {}) => resp'[p].status = 401
               /\ (TokenGood(token, now) /\ \E u \in subject : ~u.is_active)
                    => resp'[p].status = 400
               /\ (TokenGood(token, now) /\ \E u \in subject : u.is_active)
                    => resp'[p].status = 200]_vars

----------------------------------------------------------------------------
(* C10 *)

Writes(p) == pc[p] \in {"create_commit", "update_commit"}
Committed(p) == pc[p] \in {"create_refresh", "update_refresh"}
TargetId(p) == IF req[p].route = "create_book" THEN req[p].book.id ELSE req[p].book_id

\* the record request p means to leave stored: its book, or its patch over the row it read
Written(p) ==
    IF req[p].route = "create_book" THEN req[p].book
    ELSE [id |-> loaded[p].id] @@
         [f \in PatchFields |->
            IF f \in DOMAIN req[p].book_update THEN req[p].book_update[f] ELSE loaded[p][f]]

\* the record p means to leave stored breaks no constraint against the other records
Acceptable(p) ==
    /\ ~NotNullViolated(Written(p))
    /\ ~IsbnTaken(books, TargetId(p), Written(p).isbn)

C10_Step ==
    \A p \in Procs :
        \* a create that commits while its id is stored fails on the primary key and
        \* leaves the stored record, the first committer's, as it is
        /\ (Resumes(p, "create_commit") /\ PrimaryKeyTaken(books, req[p].book.id))
            => (/\ resp'[p] = ServerFault("IntegrityError")
                /\ pc'[p] = "idle"
                /\ books' = books)
        \* an update that commits while its record is stored and no constraint is broken
        \* succeeds, and writes exactly the supplied fields whose value differs from the
        \* one it read: every other field keeps what the last committer left there
        /\ \A cur \in books :
            (/\ Resumes(p, "update_commit")
             /\ cur.id = req[p].book_id
             /\ \A f \in {"title", "author", "price"} \cap DOMAIN req[p].book_update :
                    req[p].book_update[f] # None
             /\ ("isbn" \in DOMAIN req[p].book_update
                    => ~IsbnTaken(books, cur.id, req[p].book_update.isbn)))
            => /\ pc'[p] = "update_refresh"
               /\ \E new \in books' :
                    /\ new.id = cur.id
                    /\ books' \ {new} = books \ {cur}
                    /\ \A f \in PatchFields :
                        new[f] = IF /\ f \in DOMAIN req[p].book_update
                                    /\ req[p].book_update[f] # loaded[p][f]
                                 THEN req[p].book_update[f] ELSE cur[f]
        \* and it answers 200 with the record as stored when it re-reads it
        /\ \A cur \in books :
            (Resumes(p, "update_refresh") /\ cur.id = req[p].book_id)
            => resp'[p] = Ok(200, cur)

----------------------------------------------------------------------------
(* C11 *)

\* the field constraints of a stored Book: those of schema.Book, and an isbn no other row holds
StoredValid(tbl) == \A r \in tbl : BookValid(r) /\ ~IsbnTaken(tbl, r.id, r.isbn)

\* a response of the ValidationError kind: 400 NoUpdateData / ValidationError, or the
\* framework's 422 for a body the schema rejects
IsValidationError(r) ==
    /\ r.status \in {400, 422}
    /\ r.error \in {"NoUpdateData", "ValidationError", "RequestValidationError"}

\* the record the update in slot p asks for: its patch over the record it loaded
MergedRecord(p) == Merged(loaded[p], model_dump_exclude_unset(req[p].book_update))

\* that record breaks a field constraint of Book
MergedInvalid(p) ==
    \/ ~BookValid(MergedRecord(p))
    \/ IsbnTaken(books, MergedRecord(p).id, MergedRecord(p).isbn)

\* every stored Book satisfies the field constraints, in every reachable state
C11_StoredBooksValid == StoredValid(books)

\* C11 as stated: every stored Book satisfies the field constraints in every reachable
\* state, and an update whose merged record would be invalid (a required field set to
\* explicit null included) is rejected with ValidationError, the store unchanged.
C11_MergedRecordValidated ==
    /\ []StoredValid(books)
    /\ [][\A p \in Procs :
            (Resumes(p, "update_commit") /\ MergedInvalid(p))
                => (IsValidationError(resp'[p]) /\ books' = books)]_vars

\* the same rejection, whatever the kind of the answer: the update fails and the store
\* is unchanged
C11_MergedRecordRejected ==
    [][\A p \in Procs :
        (Resumes(p, "update_commit") /\ MergedInvalid(p))
            => (resp'[p].status >= 400 /\ books' = books)]_vars

\* C11, reached: an update that set title to explicit null was answered with the
\* IntegrityError server fault, and the record is stored as before
C11_NullTitleFault ==
    \E p \in Procs :
        /\ Finished(p)
        /\ req[p].route = "update_book"
        /\ req[p].book_update = PatchOf({"title"}, NullPatchValues)
        /\ resp[p] = ServerFault("IntegrityError")
        /\ \E r \in books : r.id = req[p].book_id /\ r.title # None

----------------------------------------------------------------------------
(* C12 *)

\* the error kind of the taxonomy a failing response belongs to ("ServerFault" when it
\* is none of the enumerated kinds)
ErrorKind(r) ==
    CASE r.status = 404 /\ r.error = "BookNotFound" -> "NotFound"
      [] r.status = 400 /\ r.error \in {"BookAlreadyExists", "UserAlreadyExists"} -> "Conflict"
      [] IsValidationError(r) -> "ValidationError"
      [] r.status = 401 -> "Unauthorized"
      [] r.status = 403 /\ r.error = "InactiveUser" -> "Forbidden"
      [] OTHER -> "ServerFault"

EnumeratedKinds == {"NotFound", "Conflict", "ValidationError", "Unauthorized", "Forbidden"}

Failed(p) == Finished(p) /\ resp[p].status >= 400

\* C12 as stated: every failing request ends in one of the enumerated error kinds, and a
\* create that violates a uniqueness constraint (its id or its isbn already stored) is
\* answered Conflict/AlreadyExists and leaves the store unchanged.
C12_ErrorTaxonomy ==
    /\ [](\A p \in Procs : Failed(p) => ErrorKind(resp[p]) \in EnumeratedKinds)
    /\ [][\A p \in Procs :
            /\ (Arrives(p, "create_book") /\ BookValid(req'[p].book)
                    /\ PrimaryKeyTaken(books, req'[p].book.id))
                => (ErrorKind(resp'[p]) = "Conflict" /\ books' = books)
            /\ (Resumes(p, "create_commit")
                    /\ (PrimaryKeyTaken(books, loaded[p].id)
                            \/ IsbnTaken(books, loaded[p].id, loaded[p].isbn)))
                => (ErrorKind(resp'[p]) = "Conflict" /\ books' = books)]_vars

\* the step in which a request fails leaves the store unchanged
C12_FailureLeavesStore ==
    [][\A p \in Procs : (~Failed(p) /\ Failed(p)') => books' = books]_vars

\* C12, reached: a create of an unused id whose isbn another record holds was answered
\* with the IntegrityError server fault, and was not stored
C12_IsbnFault ==
    \E p \in Procs :
        /\ Finished(p)
        /\ req[p].route = "create_book"
        /\ resp[p] = ServerFault("IntegrityError")
        /\ ~PrimaryKeyTaken(books, req[p].book.id)
        /\ IsbnTaken(books, req[p].book.id, req[p].book.isbn)

----------------------------------------------------------------------------
(* C13 *)

\* a handler of app.py run from its first statement to its return with no step of another
\* request in between: the store it leaves and the response it sends
RunAlone(tbl, r) ==
    CASE r.route = "get_all_books" ->
            LET rows == LimitOffset(TableScan(tbl), r.page_size, (r.page - 1) * r.page_size)
            IN  [books |-> tbl,
                 resp |-> Ok(200, [i \in 1..Len(rows) |-> from_attributes(rows[i])])]
      [] r.route = "get_book" ->
            LET rows == SelectById(tbl, r.book_id)
            IN  [books |-> tbl,
                 resp |-> IF rows = {} THEN HttpError(404, "BookNotFound")
                          ELSE BookResponse(200, TheRow(rows))]
      [] r.route = "create_book" ->
            LET row == model_dump(r.book)
            IN  IF ~BookValid(r.book) THEN [books |-> tbl, resp |-> Unprocessable]
                ELSE IF SelectById(tbl, r.book.id) # {}
                     THEN [books |-> tbl, resp |-> HttpError(400, "BookAlreadyExists")]
                ELSE IF InsertViolates(tbl, row)
                     THEN [books |-> tbl, resp |-> ServerFault("IntegrityError")]
                ELSE [books |-> tbl \cup {row}, resp |-> BookResponse(201, row)]
      [] r.route = "update_book" ->
            LET rows == SelectById(tbl, r.book_id)
                update_data == model_dump_exclude_unset(r.book_update)
            IN  IF ~BookUpdateValid(r.book_update) THEN [books |-> tbl, resp |-> Unprocessable]
                ELSE IF rows = {} THEN [books |-> tbl, resp |-> HttpError(404, "BookNotFound")]
                ELSE IF DOMAIN update_data = {}
                     THEN [books |-> tbl, resp |-> HttpError(400, "NoUpdateData")]
                ELSE LET row == TheRow(rows)
                         changed == ChangedFields(row, update_data)
                         new == UpdateSet(row, Merged(row, update_data), changed)
                     IN  IF NotNullViolated(new) \/ IsbnTaken(tbl, new.id, new.isbn)
                         THEN [books |-> tbl, resp |-> ServerFault("IntegrityError")]
                         ELSE [books |-> (tbl \ rows) \cup {new},
                               resp |-> BookResponse(200, new)]
      [] r.route = "delete_book" ->
            LET rows == SelectById(tbl, r.book_id)
            IN  IF rows = {} THEN [books |-> tbl, resp |-> HttpError(404, "BookNotFound")]
                ELSE [books |-> tbl \ rows, resp |-> BookResponse(200, TheRow(rows))]

\* served one at a time, a request leaves the store and sends the response of RunAlone on
\* the store it found: no step changes the store except the request's own commit
RunAloneIsSequential ==
    [][\A p \in Procs :
        /\ \A route \in {"get_all_books", "get_book", "create_book", "update_book", "delete_book"} :
            Arrives(p, route) =>
                /\ books' = books
                /\ Finished(p)' => (resp'[p] = RunAlone(books, req'[p]).resp
                                    /\ books = RunAlone(books, req'[p]).books)
        /\ \A at \in {"create_commit", "update_commit", "delete_commit"} :
            Resumes(p, at) =>
                /\ books' = RunAlone(books, req[p]).books
                /\ Finished(p)' => resp'[p] = RunAlone(books, req[p]).resp
                /\ ~Finished(p)' =>
                      RunAlone(books, req[p]).resp
                          = Ok(RunAlone(books, req[p]).resp.status,
                               TheRow(SelectById(books', TargetId(p))))
        /\ \A at \in {"create_refresh", "update_refresh"} :
            Resumes(p, at) =>
                /\ books' = books
                /\ resp'[p] = Ok(IF at = "create_refresh" THEN 201 ELSE 200,
                                 TheRow(SelectById(books, TargetId(p))))]_vars

\* two requests were received, on different slots, and both are answered
BothServed == started = 2 /\ \A p \in Procs : serial[p] > 0 /\ Finished(p)

\* the store and both responses are those of running the two requests alone, one after
\* the other, in the order first, second, from the store before the first request
InOrder(first, second) ==
    LET x == RunAlone(stored0, req[first])
        y == RunAlone(x.books, req[second])
    IN  books = y.books /\ resp[first] = x.resp /\ resp[second] = y.resp

\* C13 as stated: each operation is one atomic step, so for every interleaving of two
\* requests the final store and the outcome each reports equal those of some sequential
\* execution of the same two requests.
C13_Serializable ==
    BothServed => \E first, second \in Procs : first # second /\ InOrder(first, second)

\* C13, its consequence as stated: an existence check a request has made still holds when
\* the request writes (no other request's commit has invalidated it in between)
C13_CheckNeverInvalidated ==
    \A p \in Procs :
        /\ pc[p] = "create_commit" => ~PrimaryKeyTaken(books, loaded[p].id)
        /\ pc[p] \in {"update_commit", "delete_commit"} => PrimaryKeyTaken(books, loaded[p].id)

\* C13, reached: two creates of one id, neither with an isbn, both passed the existence
\* check; one was answered 201 and the other with the IntegrityError server fault
C13_CreateRace ==
    \E p, q \in Procs :
        /\ BothServed
        /\ req[p].route = "create_book" /\ req[q].route = "create_book"
        /\ req[p].book.id = req[q].book.id
        /\ req[p].book.isbn = None /\ req[q].book.isbn = None
        /\ resp[p].status = 201
        /\ resp[q] = ServerFault("IntegrityError")

\* C13, reached: an update raced a delete of the same id and was answered with the
\* StaleDataError server fault
C13_UpdateDeleteRace ==
    \E p, q \in Procs :
        /\ BothServed
        /\ req[p].route = "update_book" /\ req[q].route = "delete_book"
        /\ req[p].book_id = req[q].book_id
        /\ resp[p] = ServerFault("StaleDataError")
        /\ resp[q].status = 200

----------------------------------------------------------------------------
(* C14 *)

\* the patch of the update in slot p, as the handler applies it
PatchData(p) == model_dump_exclude_unset(req[p].book_update)

\* a get or a list returns records exactly as they are stored at the step of the read
ReadsSeeStore(p) ==
    /\ \A r \in books :
        (Arrives(p, "get_book") /\ r.id = req'[p].book_id) => resp'[p] = Ok(200, r)
    /\ Arrives(p, "get_all_books")
        => \A i \in 1..Len(resp'[p].body) : resp'[p].body[i] \in books

\* an update touches the store in one step only, its commit: the SELECT, the setattr loop
\* and the refresh leave it as it is, and so does a commit that fails
WritesOnlyAtCommit(p) ==
    /\ Arrives(p, "update_book") => books' = books
    /\ Resumes(p, "update_refresh") => books' = books
    /\ (Resumes(p, "update_commit") /\ resp'[p].status >= 400) => books' = books

\* the commit of update p leaves the record either as it was or with the values of
\* `written` in the fields of `fields` and every other field as it was
CommitWrites(p, fields, written) ==
    \A cur \in books :
        (Resumes(p, "update_commit") /\ cur.id = req[p].book_id)
        => \/ books' = books
           \/ \E new \in books' :
                /\ new.id = cur.id
                /\ books' \ {new} = books \ {cur}
                /\ \A f \in PatchFields :
                    new[f] = IF f \in fields THEN written[f] ELSE cur[f]

C14_StaleField ==
    \E p \in Procs :
        /\ pc[p] = "update_refresh"
        /\ DOMAIN req[p].book_update = {"price", "isbn"}
        /\ \E r \in books :
            /\ r.id = req[p].book_id
            /\ r.price = req[p].book_update.price
            /\ r.isbn # req[p].book_update.isbn

====
